---- MODULE Spec2Model ----
(***************************************************************************)
(* A model of sat/cli/bootsys/platform.py: starting and stopping the       *)
(* platform services (kubelet, containerd, Ceph freeze) of a Shasta system *)
(* over SSH.                                                               *)
(*                                                                         *)
(* The main thread runs do_platform_action: it looks the steps up,         *)
(* confirms the NCN groups, and runs the steps in order.  A service step   *)
(* builds one RemoteServiceWaiter per host, starts each in its own thread  *)
(* and joins them all.  Hosts are the numbers 1..NumHosts, ordered like    *)
(* their hostnames.  The remote hosts, the inventory, the operator at the  *)
(* prompt and Ceph are the environment: every answer they can give is a    *)
(* nondeterministic choice.  A service that accepted a start or stop       *)
(* command reaches the new state by some later is-active query, or never:  *)
(* the change is folded into the query that first sees it.                 *)
(***************************************************************************)
EXTENDS Integers, Sequences, FiniteSets, TLC

\* Bound: the number of hosts of the fleet.
NumHosts == 2

\* Bound: the poll intervals that fit in a waiter's timeout.  The source has
\* SERVICE_ACTION_TIMEOUT = 30 seconds and poll_interval = 5 seconds; the
\* model counts time in poll intervals and keeps the window short.
TimeoutPolls == 2

\* Bound: the poll intervals that fit in the timeout of a waiter a caller
\* runs on its own (a timeout of 10 seconds polled every 2 seconds).
StandaloneTimeoutPolls == 5

Hosts == 1..NumHosts

None == "None"

\* The exit code of a run in which no SystemExit was raised: no code at
\* all, written as a number that is no exit code.
NoExit == -1

Services == {"kubelet", "containerd"}

\* The status tokens systemctl is-active / is-enabled print.
ActiveTokens == {"active", "inactive", "unknown"}
EnabledTokens == {"enabled", "disabled", "unknown"}
LiveStates == [act : ActiveTokens, en : EnabledTokens]

\* The is-active tokens the hosts of a platform action start from: to keep
\* a fleet's state space small, "unknown" is found only by a waiter that
\* is run on its own.
FleetActiveTokens == {"active", "inactive"}
FleetEnabledTokens == {"enabled", "disabled"}

\* A service nobody has queried yet: each half of its state is fixed by the
\* first query that reads it.
Unobserved == [act |-> "?", en |-> "?"]

VARIABLES
    action,                 \* the argument of do_platform_action
    inventory,              \* what get_mgmt_ncn_hostnames answers, by role
    pc,                     \* where the main thread is
    exit_code,              \* NoExit, or the code of the SystemExit raised
    ncn_groups,             \* the confirmed NCN groups (None before)
    prompts,                \* how often pester_choices was called
    answer,                 \* what pester_choices returned
    stepIdx,                \* the index of the current step in steps
    executed,               \* the step actions called so far, in order
    failedStep,             \* the index of the step that raised, or 0
    loopIdx,                \* the index of the main thread's current for loop
    batch,                  \* the parameters of do_service_action_on_hosts
    errors,                 \* the FatalPlatformErrors raised so far
    service_action_waiters, \* host -> its RemoteServiceWaiter
    live,                   \* service -> host -> the service's state there
    container_stop_threads, \* host -> the state of its stop_containers thread
    ceph,                   \* the health checks made and the freezes called
    call                    \* a call of a function of sat.filtering or sat.auth

vars == <<action, inventory, pc, exit_code, ncn_groups, prompts, answer,
          stepIdx, executed, failedStep, loopIdx, batch, errors,
          service_action_waiters, live, container_stop_threads, ceph,
          call>>

mainVars == <<pc, exit_code, stepIdx, executed, failedStep, loopIdx, batch,
              errors>>

----------------------------------------------------------------------------
\* Pure helpers.

RECURSIVE sorted(_)
\* Python's sorted() of a set of hosts: the ascending list.
sorted(S) ==
    IF S = {} THEN <<>>
    ELSE LET m == CHOOSE x \in S : \A y \in S : x <= y
         IN <<m>> \o sorted(S \ {m})

Range(s) == {s[i] : i \in 1..Len(s)}

\* No call of a function of sat.filtering or sat.auth: fn is the function,
\* dicts, query_strings, constant_value, protect and fetched its inputs, pc
\* whether it has ended, out what it returned or raised.
NoCall ==
    [fn |-> "none", dicts |-> <<>>, query_strings |-> <<>>,
     constant_value |-> None, protect |-> {}, fetched |-> None,
     pc |-> "none", out |-> None]

IsPrefix(s, t) == Len(s) <= Len(t) /\ \A i \in 1..Len(s) : s[i] = t[i]

\* The inventory's answer: the hosts that have one of the roles.
get_mgmt_ncn_hostnames(roles) == UNION {inventory[r] : r \in roles}

\* The inventories the model draws from: empty groups, one host in both
\* roles, and one manager with the other hosts as workers.
Inventories ==
    {[managers |-> m, workers |-> w] :
        m \in {{}, {1}}, w \in {{}, {1}, Hosts \ {1}}}

----------------------------------------------------------------------------
\* RemoteServiceWaiter.

VALID_TARGET_STATE_VALUES == {"active", "inactive"}
VALID_TARGET_ENABLED_VALUES == {"enabled", "disabled"}

\* A faulty variant: the except clause misses RuntimeError.
CaughtExceptions_NoRuntimeError == {"socket.error", "SSHException"}

\* The exceptions wait_for_completion catches.
CaughtExceptions == {"RuntimeError", "socket.error", "SSHException"}

\* The remote call of pre_wait_action that fails, if one does: connect
\* raises socket.error, a status query fails with SSHException, and a
\* control command exits non-zero.
Faults == {"none", "connect", "is_active", "state_nonzero", "is_enabled",
           "enable_nonzero"}

\* No waiter: pc is where its thread is, ret what wait_for_completion
\* returned, outcome how it ended, exc the exception raised in it,
\* failed_call the remote call that failed, elapsed the poll intervals slept,
\* issued the remote commands sent, found the tokens pre_wait_action read,
\* timeout the poll intervals its timeout allows.
NoWaiter ==
    [pc |-> "none", completed |-> FALSE, ret |-> None, outcome |-> None,
     exc |-> None, failed_call |-> "none", elapsed |-> 0, issued |-> <<>>,
     found |-> Unobserved, connected |-> FALSE, timeout |-> 0]

\* A constructor that validates target_state only.
RemoteServiceWaiter_TargetStateOnly(target_state, target_enabled) ==
    IF target_state \notin {"active", "inactive"}
    THEN [NoWaiter EXCEPT !.pc = "ValueError"]
    ELSE [NoWaiter EXCEPT !.pc = "built"]

\* RemoteServiceWaiter.__init__: the arguments are validated, and the new
\* waiter is not yet started.
RemoteServiceWaiter(target_state, target_enabled) ==
    IF target_state \notin VALID_TARGET_STATE_VALUES
    THEN [NoWaiter EXCEPT !.pc = "ValueError"]
    ELSE IF target_enabled # None
            /\ target_enabled \notin VALID_TARGET_ENABLED_VALUES
         THEN [NoWaiter EXCEPT !.pc = "ValueError"]
         ELSE [NoWaiter EXCEPT !.pc = "built"]

ControlCommands == {"start", "stop", "enable", "disable"}

IsControl(c) == c \in ControlCommands
IsStateCommand(c) == c \in {"start", "stop"}
IsEnableCommand(c) == c \in {"enable", "disable"}

\* The control commands among the remote commands a waiter issued.
Controls(w) == SelectSeq(w.issued, IsControl)
StateCommands(w) == SelectSeq(w.issued, IsStateCommand)
EnableCommands(w) == SelectSeq(w.issued, IsEnableCommand)

\* A faulty variant: the two commands are swapped.
systemctl_state_action_Swapped(target_state) ==
    IF target_state = "active" THEN "stop" ELSE "start"

\* ('stop', 'start')[self.target_state == 'active']
systemctl_state_action(target_state) ==
    IF target_state = "active" THEN "start" ELSE "stop"

\* A faulty variant: the two commands are swapped.
systemctl_enable_action_Swapped(target_enabled) ==
    IF target_enabled = "enabled" THEN "disable" ELSE "enable"

\* ('disable', 'enable')[self.target_enabled == 'enabled']
systemctl_enable_action(target_enabled) ==
    IF target_enabled = "enabled" THEN "enable" ELSE "disable"

\* A faulty variant: the exit code is never looked at.
run_remote_command_IgnoreExit(status, nonzero_error) == None

\* _run_remote_command: the exception it raises for a command's exit code.
run_remote_command(status, nonzero_error) ==
    IF status # 0 /\ nonzero_error THEN "RuntimeError" ELSE None

\* A faulty variant: the comparison is inverted.
has_completed_Inverted(token, target_state) == token # target_state

\* has_completed on the token _get_active returned.
has_completed(token, target_state) == token = target_state

\* pre_wait_action, lines 151-154: the enable/disable part.  r is the
\* result so far: [w, raised, st].
pre_wait_enable(r, b, st, f) ==
    IF b.target_enabled = None
    THEN r
    ELSE
      LET w1 == [r.w EXCEPT !.issued = @ \o <<"is-enabled">>]
      IN IF f = "is_enabled"
         THEN [r EXCEPT !.w = [w1 EXCEPT !.failed_call = f],
                        !.raised = "SSHException"]
         ELSE
           LET w2 == [w1 EXCEPT !.found.en = st.en]
               r2 == [r EXCEPT !.st.en = st.en]
           IN IF st.en = b.target_enabled
              THEN [r2 EXCEPT !.w = w2]
              ELSE
                LET w3 == [w2 EXCEPT !.issued =
                              @ \o <<systemctl_enable_action(b.target_enabled)>>]
                    code == IF f = "enable_nonzero" THEN 1 ELSE 0
                    w4 == IF code = 0 THEN w3 ELSE [w3 EXCEPT !.failed_call = f]
                    e == run_remote_command(code, TRUE)
                IN IF e # None
                   THEN [r2 EXCEPT !.w = w4, !.raised = e]
                   ELSE [r2 EXCEPT !.w = w4,
                                   !.st.en = IF code = 0 THEN b.target_enabled
                                             ELSE st.en]

\* pre_wait_action of waiter w of batch b, on a host whose service is in
\* state st (of which old is known so far), where remote call f (if any)
\* fails.  The result: the waiter after it, the exception raised (or None)
\* and what is known of the service's state.
pre_wait_action(w, b, old, st, f) ==
    LET r0 == [w |-> w, raised |-> None, st |-> old]
    IN
    IF f = "connect"
    THEN [r0 EXCEPT !.w = [w EXCEPT !.failed_call = f],
                    !.raised = "socket.error"]
    ELSE
      LET w1 == [w EXCEPT !.connected = TRUE, !.issued = @ \o <<"is-active">>]
      IN IF f = "is_active"
         THEN [r0 EXCEPT !.w = [w1 EXCEPT !.failed_call = f],
                         !.raised = "SSHException"]
         ELSE
           LET w2 == [w1 EXCEPT !.found.act = st.act]
               r2 == [r0 EXCEPT !.st.act = st.act]
           IN IF has_completed(st.act, b.target_state)
              THEN pre_wait_enable(
                       [r2 EXCEPT !.w = [w2 EXCEPT !.completed = TRUE]],
                       b, st, f)
              ELSE
                LET w3 == [w2 EXCEPT !.issued =
                              @ \o <<systemctl_state_action(b.target_state)>>]
                    code == IF f = "state_nonzero" THEN 1 ELSE 0
                    w4 == IF code = 0 THEN w3 ELSE [w3 EXCEPT !.failed_call = f]
                    e == run_remote_command(code, TRUE)
                IN IF e # None
                   THEN [r2 EXCEPT !.w = w4, !.raised = e]
                   ELSE pre_wait_enable([r2 EXCEPT !.w = w4], b, st, f)

----------------------------------------------------------------------------
\* The steps.

\* A faulty variant: the stop steps are listed with containerd first.
STEPS_BY_ACTION_ContainerdFirst ==
    [start |-> <<"do_containerd_start", "do_kubelet_start">>,
     stop |-> <<"do_containerd_stop", "do_kubelet_stop", "do_ceph_freeze">>]

\* A faulty variant: "restart" is a key too.
STEPS_BY_ACTION_WithRestart ==
    [start |-> <<"do_containerd_start", "do_kubelet_start">>,
     stop |-> <<"do_kubelet_stop", "do_containerd_stop", "do_ceph_freeze">>,
     restart |-> <<"do_containerd_start", "do_kubelet_start">>]

\* STEPS_BY_ACTION: the ordered step actions of each platform action.
STEPS_BY_ACTION ==
    [start |-> <<"do_containerd_start", "do_kubelet_start">>,
     stop |-> <<"do_kubelet_stop", "do_containerd_stop", "do_ceph_freeze">>]

\* The actions do_platform_action may be called with; "restart" is no key
\* of STEPS_BY_ACTION.
Actions == {"start", "stop", "restart"}

steps == STEPS_BY_ACTION[action]

\* A faulty variant: the stop of containerd disables it too.
do_containerd_stop_args_Disabled ==
    [service |-> "containerd", target_state |-> "inactive",
     target_enabled |-> "disabled"]

\* The arguments each step passes to do_service_action_on_hosts.
do_containerd_stop_args ==
    [service |-> "containerd", target_state |-> "inactive",
     target_enabled |-> None]
do_containerd_start_args ==
    [service |-> "containerd", target_state |-> "active",
     target_enabled |-> "enabled"]
do_kubelet_stop_args ==
    [service |-> "kubelet", target_state |-> "inactive",
     target_enabled |-> "disabled"]
do_kubelet_start_args ==
    [service |-> "kubelet", target_state |-> "active",
     target_enabled |-> "enabled"]

ServiceArgs(step) ==
    CASE step = "do_containerd_stop" -> do_containerd_stop_args
      [] step = "do_containerd_start" -> do_containerd_start_args
      [] step = "do_kubelet_stop" -> do_kubelet_stop_args
      [] step = "do_kubelet_start" -> do_kubelet_start_args

\* The storage cluster before do_ceph_freeze: the calls made to
\* ceph_healthy and freeze_ceph, the answer of ceph_healthy ("True" or
\* "False"), how freeze_ceph ended, and the exception that left
\* do_ceph_freeze.
NoCeph ==
    [health_checks |-> 0, freezes |-> 0, healthy |-> None, outcome |-> None,
     raised |-> None]

NoBatch ==
    [hosts |-> <<>>, service |-> None, target_state |-> None,
     target_enabled |-> None, raised |-> 0, failing |-> 0, errored |-> 0,
     result |-> None]

\* No stop_containers thread: st is where the thread is, fault what went
\* wrong in it, log the level of the record it logged, raised the exception
\* that ended it.
NoThread == [st |-> "none", fault |-> None, log |-> None, raised |-> None]

\* A faulty variant: the error names the hosts that are not completed.
BatchError_NamingHosts(b) ==
    [msg |-> "Failed to ensure", service |-> b.service,
     target_state |-> b.target_state, target_enabled |-> b.target_enabled,
     hosts |-> {h \in {b.hosts[i] : i \in 1..Len(b.hosts)} :
                   ~service_action_waiters[h].completed}]

\* The FatalPlatformError a failed batch raises: its message names the
\* service, the target state and the target enabled state.
BatchError(b) ==
    [msg |-> "Failed to ensure", service |-> b.service,
     target_state |-> b.target_state, target_enabled |-> b.target_enabled]

OtherError(m) ==
    [msg |-> m, service |-> None, target_state |-> None,
     target_enabled |-> None]

\* A faulty variant: the error is logged and the loop goes on.
OnFatalPlatformError_Continue(idx) ==
    [pc |-> "step", exit_code |-> NoExit, stepIdx |-> idx + 1]

\* do_platform_action's handling of a step's FatalPlatformError: log it and
\* raise SystemExit(1).
OnFatalPlatformError(idx) ==
    [pc |-> "exit", exit_code |-> 1, stepIdx |-> idx]

\* A faulty variant: the node groups are resolved again after each step.
OnStepReturn_ResolveAgain(idx) ==
    [pc |-> "resolve", exit_code |-> NoExit, stepIdx |-> idx + 1]

\* A step returned: the for loop goes on to the next one.
OnStepReturn(idx) ==
    [pc |-> "step", exit_code |-> NoExit, stepIdx |-> idx + 1]

\* A faulty variant: the aggregation never raises.
AggregateRaises_Never(hosts) == 0

\* A faulty variant: the aggregation looks at the first host's waiter only.
AggregateRaises_FirstHostOnly(hosts) ==
    IF ~service_action_waiters[hosts[1]].completed THEN 1 ELSE 0

\* A faulty variant: the error is raised inside a loop over the waiters,
\* once for each that is not completed.
AggregateRaises_PerHost(hosts) ==
    Cardinality({h \in Range(hosts) : ~service_action_waiters[h].completed})

\* How often the aggregation of do_service_action_on_hosts raises, given
\* the completed flags of its waiters: once if not all are completed.
AggregateRaises(hosts) ==
    IF ~(\A h \in Range(hosts) : service_action_waiters[h].completed)
    THEN 1 ELSE 0

\* A faulty variant: each loop handles the first waiter only.
FanOutDone_FirstOnly(i) == i > 1
FanInDone_FirstOnly(i) == i > 1

\* The fan-out loop has called wait_for_completion_async on every waiter.
FanOutDone(i) == i > Len(batch.hosts)

\* The fan-in loop has called wait_for_completion_await on every waiter.
FanInDone(i) == i > Len(batch.hosts)

----------------------------------------------------------------------------
Init ==
    /\ action \in Actions
    /\ inventory \in Inventories
    /\ pc = "lookup"
    /\ exit_code = NoExit
    /\ ncn_groups = None
    /\ prompts = 0
    /\ answer = None
    /\ stepIdx = 0
    /\ executed = <<>>
    /\ failedStep = 0
    /\ loopIdx = 0
    /\ batch = NoBatch
    /\ errors = <<>>
    /\ service_action_waiters = [h \in Hosts |-> NoWaiter]
    /\ live = [s \in Services |-> [h \in Hosts |-> Unobserved]]
    /\ container_stop_threads = [h \in Hosts |-> NoThread]
    /\ ceph = NoCeph
    /\ call = NoCall

\* do_platform_action, lines 386-390: look the steps up.
LookupSteps ==
    /\ pc = "lookup"
    /\ IF action \in DOMAIN STEPS_BY_ACTION
       THEN pc' = "resolve" /\ exit_code' = exit_code
       ELSE pc' = "exit" /\ exit_code' = 1
    /\ UNCHANGED <<call, action, inventory, ncn_groups, prompts, answer,
                   stepIdx, executed, failedStep, loopIdx, batch, errors,
                   service_action_waiters, live, container_stop_threads, ceph>>

\* A faulty variant: the kubernetes group is built from the workers only.
ncns_by_group_WorkersOnly ==
    [managers |-> sorted(get_mgmt_ncn_hostnames({"managers"})),
     workers |-> sorted(get_mgmt_ncn_hostnames({"workers"})),
     kubernetes |-> sorted(get_mgmt_ncn_hostnames({"workers"}))]

\* The groups prompt_for_ncn_verification builds.
ncns_by_group ==
    [managers |-> sorted(get_mgmt_ncn_hostnames({"managers"})),
     workers |-> sorted(get_mgmt_ncn_hostnames({"workers"})),
     kubernetes |-> sorted(get_mgmt_ncn_hostnames({"managers", "workers"}))]

\* empty_groups finding only an empty managers group.
empty_groups_ManagersOnly ==
    {name \in {"managers"} : ncns_by_group[name] = <<>>}

empty_groups == {name \in DOMAIN ncns_by_group : ncns_by_group[name] = <<>>}

\* The answer never taken to say the groups are incorrect.
groups_incorrect_Never(choice) == FALSE

\* prompt_for_ncn_verification, line 222: the admin's answer says the groups
\* are incorrect.
groups_incorrect(choice) == choice = "no"

\* do_platform_action, lines 392-396, with prompt_for_ncn_verification.
PromptForNcnVerification ==
    /\ pc = "resolve"
    /\ \/ /\ empty_groups # {}
          /\ errors' = Append(errors, OtherError("Failed to identify members"))
          /\ pc' = "exit" /\ exit_code' = 1
          /\ UNCHANGED <<prompts, answer, ncn_groups, stepIdx>>
       \/ /\ empty_groups = {}
          /\ prompts' = prompts + 1
          /\ \E choice \in {"yes", "no"} :
                /\ answer' = choice
                /\ IF groups_incorrect(choice)
                   THEN /\ errors' =
                              Append(errors,
                                     OtherError("User indicated NCN groups are incorrect"))
                        /\ pc' = "exit" /\ exit_code' = 1
                        /\ UNCHANGED <<ncn_groups, stepIdx>>
                   ELSE /\ ncn_groups' = ncns_by_group
                        /\ pc' = "step" /\ stepIdx' = 1
                        /\ UNCHANGED <<errors, exit_code>>
    /\ UNCHANGED <<call, action, inventory, executed, failedStep, loopIdx,
                   batch, service_action_waiters, live, container_stop_threads,
                   ceph>>

\* do_service_action_on_hosts, lines 278-280: one new waiter per host.
Construct(hosts, args) ==
    /\ batch' = [hosts |-> hosts, service |-> args.service,
                 target_state |-> args.target_state,
                 target_enabled |-> args.target_enabled,
                 raised |-> 0, failing |-> 0, errored |-> 0,
                 result |-> None]
    /\ service_action_waiters' =
          [h \in Hosts |->
              IF h \in Range(hosts)
              THEN [RemoteServiceWaiter(args.target_state,
                                        args.target_enabled)
                        EXCEPT !.timeout = TimeoutPolls]
              ELSE NoWaiter]
    /\ loopIdx' = 1
    /\ pc' = "fanout"

\* do_platform_action, lines 398-403, calling do_containerd_start,
\* do_kubelet_stop or do_kubelet_start.
StepService ==
    /\ pc = "step"
    /\ stepIdx <= Len(steps)
    /\ steps[stepIdx] \in {"do_containerd_start", "do_kubelet_stop",
                           "do_kubelet_start"}
    /\ executed' = Append(executed, steps[stepIdx])
    /\ Construct(ncn_groups.kubernetes, ServiceArgs(steps[stepIdx]))
    /\ UNCHANGED <<call, action, inventory, exit_code, ncn_groups, prompts,
                   answer, stepIdx, failedStep, errors, live,
                   container_stop_threads, ceph>>

\* do_platform_action calling do_containerd_stop, lines 298-301: one
\* stop_containers thread per Kubernetes NCN.
StepContainerdStop ==
    /\ pc = "step"
    /\ stepIdx <= Len(steps)
    /\ steps[stepIdx] = "do_containerd_stop"
    /\ executed' = Append(executed, steps[stepIdx])
    /\ container_stop_threads' =
          [h \in Hosts |-> IF h \in Range(ncn_groups.kubernetes)
                           THEN [NoThread EXCEPT !.st = "built"]
                           ELSE NoThread]
    /\ loopIdx' = 1
    /\ pc' = "drain_start"
    /\ UNCHANGED <<call, action, inventory, exit_code, ncn_groups, prompts,
                   answer, stepIdx, failedStep, batch, errors,
                   service_action_waiters, live, ceph>>

\* do_containerd_stop, lines 302-303: thread.start() for each thread.
DrainStart ==
    /\ pc = "drain_start"
    /\ loopIdx <= Len(ncn_groups.kubernetes)
    /\ container_stop_threads' =
          [container_stop_threads EXCEPT
              ![ncn_groups.kubernetes[loopIdx]].st = "running"]
    /\ IF loopIdx + 1 > Len(ncn_groups.kubernetes)
       THEN pc' = "drain_join" /\ loopIdx' = 1
       ELSE pc' = pc /\ loopIdx' = loopIdx + 1
    /\ UNCHANGED <<call, action, inventory, exit_code, ncn_groups, prompts,
                   answer, stepIdx, executed, failedStep, batch, errors,
                   service_action_waiters, live, ceph>>

\* What can go wrong in a stop_containers thread: nothing; the pipeline
\* exits non-zero; connecting fails; exec_command raises.
DrainFaults == {"none", "nonzero", "connect", "exec"}

\* stop_containers raising on a non-zero exit status instead of warning.
stop_containers_NonzeroRaises(fault) ==
    CASE fault = "connect" ->
            [st |-> "done", fault |-> fault, log |-> "error",
             raised |-> "SystemExit"]
      [] fault = "exec" ->
            [st |-> "done", fault |-> fault, log |-> None,
             raised |-> "SSHException"]
      [] fault = "nonzero" ->
            [st |-> "done", fault |-> fault, log |-> None,
             raised |-> "RuntimeError"]
      [] OTHER ->
            [st |-> "done", fault |-> fault, log |-> None, raised |-> None]

\* stop_containers logging a connection failure as a warning and returning.
stop_containers_ConnectWarns(fault) ==
    CASE fault = "exec" ->
            [st |-> "done", fault |-> fault, log |-> None,
             raised |-> "SSHException"]
      [] fault \in {"connect", "nonzero"} ->
            [st |-> "done", fault |-> fault, log |-> "warning",
             raised |-> None]
      [] OTHER ->
            [st |-> "done", fault |-> fault, log |-> None, raised |-> None]

\* stop_containers(host), lines 243-257, as the thread's end: what it
\* logged and the exception that left it.  A connection failure is logged
\* with LOGGER.error and raises SystemExit(1); exec_command's exception is
\* not caught; a non-zero exit status is logged with LOGGER.warning.
stop_containers(fault) ==
    CASE fault = "connect" ->
            [st |-> "done", fault |-> fault, log |-> "error",
             raised |-> "SystemExit"]
      [] fault = "exec" ->
            [st |-> "done", fault |-> fault, log |-> None,
             raised |-> "SSHException"]
      [] fault = "nonzero" ->
            [st |-> "done", fault |-> fault, log |-> "warning",
             raised |-> None]
      [] OTHER ->
            [st |-> "done", fault |-> fault, log |-> None, raised |-> None]

\* A faulty variant: join returns only for a thread that ended without an
\* exception.
join_OnlyCleanExit(t) == t.st = "done" /\ t.raised = None

\* Thread.join returns once the thread has ended, whatever ended it: an
\* exception raised in the thread (SystemExit included) ends that thread
\* only and is not raised again in the joining thread.
join(t) == t.st = "done"

\* The join loop left after the first thread.
DrainJoinDone_FirstOnly(i) == i > 1

\* do_containerd_stop, lines 304-305: the last join has returned.
DrainJoinDone(i) == i > Len(ncn_groups.kubernetes)

\* stop_containers(host), in its own thread.
StopContainers(h) ==
    /\ container_stop_threads[h].st = "running"
    /\ \E fault \in DrainFaults :
          container_stop_threads' =
             [container_stop_threads EXCEPT ![h] = stop_containers(fault)]
    /\ UNCHANGED <<call, action, inventory, ncn_groups, prompts, answer,
                   mainVars, service_action_waiters, live, ceph>>

\* do_containerd_stop, lines 304-307: thread.join() for each thread, then
\* the containerd stop batch.
DrainJoin ==
    /\ pc = "drain_join"
    /\ join(container_stop_threads[ncn_groups.kubernetes[loopIdx]])
    /\ IF DrainJoinDone(loopIdx + 1)
       THEN Construct(ncn_groups.kubernetes, do_containerd_stop_args)
       ELSE /\ loopIdx' = loopIdx + 1
            /\ UNCHANGED <<pc, batch, service_action_waiters>>
    /\ UNCHANGED <<call, action, inventory, exit_code, ncn_groups, prompts,
                   answer, stepIdx, executed, failedStep, errors, live,
                   container_stop_threads, ceph>>

\* do_service_action_on_hosts, lines 281-282: wait_for_completion_async
\* on the next waiter, which starts its thread.
FanOut ==
    /\ pc = "fanout"
    /\ loopIdx <= Len(batch.hosts)
    /\ service_action_waiters' =
          [service_action_waiters EXCEPT ![batch.hosts[loopIdx]].pc = "running"]
    /\ IF FanOutDone(loopIdx + 1)
       THEN pc' = "fanin" /\ loopIdx' = 1
       ELSE pc' = pc /\ loopIdx' = loopIdx + 1
    /\ UNCHANGED <<call, action, inventory, exit_code, ncn_groups, prompts,
                   answer, stepIdx, executed, failedStep, batch, errors, live,
                   container_stop_threads, ceph>>

\* The end of wait_for_completion in a waiter's thread, lines 120-124: an
\* exception it catches is logged and the method returns False; any other
\* leaves the thread uncaught.  With no exception the base class returns
\* self.completed.
Finish(w, raised, outcome) ==
    IF raised # None
    THEN IF raised \in CaughtExceptions
         THEN [w EXCEPT !.pc = "done", !.exc = raised, !.ret = FALSE,
                        !.outcome = "error"]
         ELSE [w EXCEPT !.pc = "done", !.exc = raised, !.outcome = "uncaught"]
    ELSE [w EXCEPT !.pc = "done", !.ret = w.completed, !.outcome = outcome]

\* The service states a waiter can find on host h: the state the service
\* is in, with any token for a half nobody has queried yet.
FoundStates(s, h) ==
    {st \in LiveStates :
        /\ live[s][h].act \in {"?", st.act}
        /\ live[s][h].en \in {"?", st.en}
        /\ pc # "standalone" => st.act \in FleetActiveTokens
        /\ pc # "standalone" => st.en \in FleetEnabledTokens}

\* wait_for_completion in the thread of host h's waiter, up to the polling
\* loop: pre_wait_action, and the loop's test of self.completed.
PreWait(h) ==
    /\ service_action_waiters[h].pc = "running"
    /\ \E st \in FoundStates(batch.service, h), f \in Faults :
          LET r == pre_wait_action(service_action_waiters[h], batch,
                                   live[batch.service][h], st, f)
              w == IF r.raised # None \/ r.w.completed
                   THEN Finish(r.w, r.raised, "completed")
                   ELSE [r.w EXCEPT !.pc = "polling"]
          IN /\ service_action_waiters' =
                   [service_action_waiters EXCEPT ![h] = w]
             /\ live' = [live EXCEPT ![batch.service][h] = r.st]
    /\ UNCHANGED <<call, action, inventory, ncn_groups, prompts, answer,
                   mainVars, container_stop_threads, ceph>>

\* A timeout shared by the batch: a waiter is timed out as soon as any
\* waiter has timed out.
is_timed_out_Shared(w) ==
    \/ w.elapsed >= w.timeout
    \/ \E h \in Hosts : service_action_waiters[h].outcome = "timeout"

\* A waiter timed out at its first poll.
is_timed_out_AtOnce(w) == TRUE

\* The waiter's timeout has elapsed.
is_timed_out(w) == w.elapsed >= w.timeout

\* A faulty variant: a poll queries the enabled status too.
poll_commands_WithIsEnabled == <<"is-active", "is-enabled">>

\* has_completed, lines 192-193: the remote commands of one poll.
poll_commands == <<"is-active">>

\* A faulty variant: a poll that finds the service not in the target state
\* issues the start or stop command again before it sleeps.
sleep_Reissue(w) ==
    [w EXCEPT !.issued = @ \o <<systemctl_state_action(batch.target_state)>>,
              !.elapsed = @ + 1]

\* The polling loop's sleep of one poll interval.
sleep(w) == [w EXCEPT !.elapsed = @ + 1]

\* One round of the polling loop in the thread of host h's waiter:
\* has_completed (is-active, which may fail), else the timeout test, else
\* the sleep of one poll interval.  The service, which accepted the start
\* or stop command, may have reached the target state by now (settled).
Poll(h) ==
    /\ service_action_waiters[h].pc = "polling"
    /\ \E f \in {"none", "is_active"}, settled \in BOOLEAN :
          LET w0 == service_action_waiters[h]
              w1 == [w0 EXCEPT !.issued = @ \o poll_commands]
              token == IF settled THEN batch.target_state
                       ELSE live[batch.service][h].act
              w == CASE f = "is_active" ->
                           Finish([w1 EXCEPT !.failed_call = "poll_is_active"],
                                  "SSHException", None)
                     [] f = "none" /\ has_completed(token, batch.target_state) ->
                           Finish([w1 EXCEPT !.completed = TRUE], None,
                                  "completed")
                     [] f = "none" /\ is_timed_out(w1) ->
                           Finish(w1, None, "timeout")
                     [] OTHER -> sleep(w1)
          IN /\ service_action_waiters' =
                   [service_action_waiters EXCEPT ![h] = w]
             /\ live' = [live EXCEPT ![batch.service][h].act = token]
    /\ UNCHANGED <<call, action, inventory, ncn_groups, prompts, answer,
                   mainVars, container_stop_threads, ceph>>

\* wait_for_completion_await returning without waiting for the thread.
thread_finished_Always(w) == TRUE

\* wait_for_completion_await returns when the waiter's thread has ended.
thread_finished(w) == w.pc = "done"

\* do_service_action_on_hosts, lines 283-284: wait_for_completion_await on
\* the next waiter, which joins its thread.
FanIn ==
    /\ pc = "fanin"
    /\ loopIdx <= Len(batch.hosts)
    /\ thread_finished(service_action_waiters[batch.hosts[loopIdx]])
    /\ IF FanInDone(loopIdx + 1)
       THEN pc' = "aggregate" /\ loopIdx' = 0
       ELSE pc' = pc /\ loopIdx' = loopIdx + 1
    /\ UNCHANGED <<call, action, inventory, exit_code, ncn_groups, prompts,
                   answer, stepIdx, executed, failedStep, batch, errors,
                   service_action_waiters, live, container_stop_threads, ceph>>

\* The main thread after a step: a FatalPlatformError ends the run, a
\* return moves to the next step.
AfterStep(failed) ==
    LET n == IF failed THEN OnFatalPlatformError(stepIdx)
             ELSE OnStepReturn(stepIdx)
    IN /\ pc' = n.pc
       /\ exit_code' = n.exit_code
       /\ stepIdx' = n.stepIdx
       /\ failedStep' = IF failed THEN stepIdx ELSE failedStep

\* The hosts of the batch whose waiter is not completed.
NotCompleted == {h \in Range(batch.hosts) : ~service_action_waiters[h].completed}

\* The hosts of the batch whose reconciliation raised an error.
Errored == {h \in Range(batch.hosts) : service_action_waiters[h].exc # None}

\* do_service_action_on_hosts, lines 286-289, and the step's end in
\* do_platform_action, lines 404-407.  batch.failing keeps the number of
\* waiters that were not completed and batch.errored the number whose
\* reconciliation raised an error.  When the function returns, its waiters
\* (and the threads of do_containerd_stop) go out of scope.
Aggregate ==
    /\ pc = "aggregate"
    /\ LET n == AggregateRaises(batch.hosts)
       IN /\ batch' = [batch EXCEPT !.raised = n,
                          !.failing = Cardinality(NotCompleted),
                          !.errored = Cardinality(Errored),
                          !.result = IF n > 0 THEN "raised" ELSE "returned"]
          /\ errors' = errors \o [i \in 1..n |-> BatchError(batch)]
          /\ AfterStep(n > 0)
          /\ IF n > 0
             THEN UNCHANGED <<service_action_waiters, container_stop_threads>>
             ELSE /\ service_action_waiters' = [h \in Hosts |-> NoWaiter]
                  /\ container_stop_threads' = [h \in Hosts |-> NoThread]
    /\ UNCHANGED <<call, action, inventory, ncn_groups, prompts, answer,
                   executed, loopIdx, live, ceph>>

\* How freeze_ceph can end: it returns, or it reports its failure with a
\* RuntimeError.
FreezeOutcomes == {"ok", "RuntimeError"}

\* No exception of freeze_ceph wrapped.
do_ceph_freeze_except_Nothing == {}

\* do_ceph_freeze, line 350: the exceptions of freeze_ceph that are wrapped
\* in a FatalPlatformError.
do_ceph_freeze_except == {"RuntimeError"}

\* do_ceph_freeze calling freeze_ceph whatever ceph_healthy answers.
do_ceph_freeze_NoGate(healthy, outcome) ==
    [health_checks |-> 1, freezes |-> 1,
     raised |-> IF outcome = "ok" THEN None ELSE "FatalPlatformError",
     message |-> IF outcome = "ok" THEN None ELSE "freeze_ceph failed"]

\* do_ceph_freeze(ncn_groups), lines 346-351, given what ceph_healthy
\* answers and how freeze_ceph would end: the calls it makes and the
\* exception that leaves it.
do_ceph_freeze(healthy, outcome) ==
    IF ~healthy
    THEN [health_checks |-> 1, freezes |-> 0, raised |-> "FatalPlatformError",
          message |-> "Ceph is not healthy"]
    ELSE IF outcome = "ok"
         THEN [health_checks |-> 1, freezes |-> 1, raised |-> None,
               message |-> None]
         ELSE IF outcome \in do_ceph_freeze_except
              THEN [health_checks |-> 1, freezes |-> 1,
                    raised |-> "FatalPlatformError",
                    message |-> "freeze_ceph failed"]
              ELSE [health_checks |-> 1, freezes |-> 1, raised |-> outcome,
                    message |-> None]

\* do_platform_action calling do_ceph_freeze, lines 398-407.  Only a
\* FatalPlatformError is caught there: any other exception leaves
\* do_platform_action.
StepCephFreeze ==
    /\ pc = "step"
    /\ stepIdx <= Len(steps)
    /\ steps[stepIdx] = "do_ceph_freeze"
    /\ executed' = Append(executed, steps[stepIdx])
    /\ \E healthy \in BOOLEAN, outcome \in FreezeOutcomes :
          LET r == do_ceph_freeze(healthy, outcome)
          IN /\ ceph' = [health_checks |-> ceph.health_checks + r.health_checks,
                         freezes |-> ceph.freezes + r.freezes,
                         healthy |-> IF healthy THEN "True" ELSE "False",
                         outcome |-> IF r.freezes > 0 THEN outcome ELSE None,
                         raised |-> r.raised]
             /\ errors' = IF r.raised = "FatalPlatformError"
                          THEN Append(errors, OtherError(r.message))
                          ELSE errors
             /\ IF r.raised \in {None, "FatalPlatformError"}
                THEN AfterStep(r.raised # None)
                ELSE /\ pc' = "uncaught"
                     /\ UNCHANGED <<exit_code, stepIdx, failedStep>>
    /\ UNCHANGED <<call, action, inventory, ncn_groups, prompts, answer,
                   loopIdx, batch, service_action_waiters, live,
                   container_stop_threads>>

\* do_platform_action: the for loop is over and the function returns.
Return ==
    /\ pc = "step"
    /\ stepIdx > Len(steps)
    /\ pc' = "returned"
    /\ UNCHANGED <<call, action, inventory, exit_code, ncn_groups, prompts,
                   answer, stepIdx, executed, failedStep, loopIdx, batch,
                   errors, service_action_waiters, live,
                   container_stop_threads, ceph>>

Next ==
    \/ LookupSteps
    \/ PromptForNcnVerification
    \/ StepService
    \/ StepContainerdStop
    \/ DrainStart
    \/ \E h \in Hosts : StopContainers(h)
    \/ DrainJoin
    \/ FanOut
    \/ \E h \in Hosts : PreWait(h)
    \/ \E h \in Hosts : Poll(h)
    \/ FanIn
    \/ Aggregate
    \/ StepCephFreeze
    \/ Return

Spec == Init /\ [][Next]_vars

----------------------------------------------------------------------------
\* do_platform_action where every thread that can take a step eventually
\* takes one: the scheduler starves no thread, and every remote call and
\* the prompt return.

\* The steps of the main thread.
MainThread ==
    \/ LookupSteps
    \/ PromptForNcnVerification
    \/ StepService
    \/ StepContainerdStop
    \/ DrainStart
    \/ DrainJoin
    \/ FanOut
    \/ FanIn
    \/ Aggregate
    \/ StepCephFreeze
    \/ Return

\* Each thread's fairness is stated over the part of the state that every
\* step of the thread changes.
Fairness ==
    /\ WF_<<pc, stepIdx, loopIdx>>(MainThread)
    /\ \A h \in Hosts :
          WF_<<service_action_waiters[h].pc, service_action_waiters[h].issued>>(
              PreWait(h) \/ Poll(h))
    /\ \A h \in Hosts : WF_<<container_stop_threads[h].st>>(StopContainers(h))

NextFair ==
    \/ MainThread
    \/ \E h \in Hosts : StopContainers(h)
    \/ \E h \in Hosts : PreWait(h)
    \/ \E h \in Hosts : Poll(h)

SpecFair == Init /\ [][NextFair]_vars /\ Fairness

----------------------------------------------------------------------------
\* One RemoteServiceWaiter run on its own: a caller constructs it with
\* any arguments, on a host whose service is in any state, and calls
\* wait_for_completion.

TargetStateArgs == VALID_TARGET_STATE_VALUES \cup {"restarted"}
TargetEnabledArgs == VALID_TARGET_ENABLED_VALUES \cup {None, "masked"}

InitWaiter ==
    /\ action = None
    /\ inventory = [managers |-> {}, workers |-> {}]
    /\ pc = "standalone"
    /\ exit_code = NoExit
    /\ ncn_groups = None
    /\ prompts = 0
    /\ answer = None
    /\ stepIdx = 0
    /\ executed = <<>>
    /\ failedStep = 0
    /\ loopIdx = 0
    /\ \E ts \in TargetStateArgs, te \in TargetEnabledArgs :
          batch = [NoBatch EXCEPT !.hosts = <<1>>, !.service = "kubelet",
                                  !.target_state = ts, !.target_enabled = te]
    /\ errors = <<>>
    /\ service_action_waiters = [h \in Hosts |-> NoWaiter]
    /\ \E st \in LiveStates :
          live = [s \in Services |-> [h \in Hosts |->
                     IF s = "kubelet" /\ h = 1 THEN st ELSE Unobserved]]
    /\ container_stop_threads = [h \in Hosts |-> NoThread]
    /\ ceph = NoCeph
    /\ call = NoCall

\* The caller constructs the waiter.
NewStandaloneWaiter ==
    /\ pc = "standalone"
    /\ service_action_waiters[1].pc = "none"
    /\ service_action_waiters' =
          [service_action_waiters EXCEPT
              ![1] = [RemoteServiceWaiter(batch.target_state,
                                          batch.target_enabled)
                          EXCEPT !.timeout = StandaloneTimeoutPolls]]
    /\ UNCHANGED <<call, action, inventory, ncn_groups, prompts, answer,
                   mainVars, live, container_stop_threads, ceph>>

\* The caller calls wait_for_completion.
CallWaitForCompletion ==
    /\ pc = "standalone"
    /\ service_action_waiters[1].pc = "built"
    /\ service_action_waiters' =
          [service_action_waiters EXCEPT ![1].pc = "running"]
    /\ UNCHANGED <<call, action, inventory, ncn_groups, prompts, answer,
                   mainVars, live, container_stop_threads, ceph>>

\* The host, while the waiter polls: somebody else enables or disables the
\* service.
EnabledStatusChanges ==
    /\ pc = "standalone"
    /\ service_action_waiters[1].pc = "polling"
    /\ \E en \in EnabledTokens \ {live[batch.service][1].en} :
          live' = [live EXCEPT ![batch.service][1].en = en]
    /\ UNCHANGED <<call, action, inventory, ncn_groups, prompts, answer,
                   mainVars, service_action_waiters, container_stop_threads,
                   ceph>>

NextWaiter ==
    \/ NewStandaloneWaiter
    \/ CallWaitForCompletion
    \/ EnabledStatusChanges
    \/ \E h \in Hosts : PreWait(h)
    \/ \E h \in Hosts : Poll(h)

SpecWaiter == InitWaiter /\ [][NextWaiter]_vars

----------------------------------------------------------------------------
\* sat.filtering: filter_list and remove_constant_values.

\* Bound: the number of dicts in a list of dicts.
MaxRows == 2

\* Bound: the number of query strings given to filter_list.
MaxQueries == 1

\* The headings a dict may have.
Keys == {"name", "count"}

\* A field's value is a string or a number: v is the number itself, or the
\* rank of the string's text among the texts in use (a lower rank compares
\* less, as Python compares strings).
Str(n) == [t |-> "str", v |-> n]
Num(n) == [t |-> "num", v |-> n]

\* The texts of a query string's right-hand side that float() converts, with
\* the number each is converted to, and the other texts, with their rank.
Floats == ("1" :> 1) @@ ("2" :> 2)
TextRank == ("x" :> 1)

FieldValues == {Str(1), Num(1), Num(2)}

\* A dict, in its insertion order: a list of items with distinct keys.
Items == [key : Keys, value : FieldValues]
Dicts ==
    {d \in UNION {[1..n -> Items] : n \in 1..Cardinality(Keys)} :
        \A i, j \in DOMAIN d : i # j => d[i].key # d[j].key}
DictLists == UNION {[1..n -> Dicts] : n \in 0..MaxRows}

\* d.keys(), which compares as a set, and d[key].
keys(d) == {d[i].key : i \in DOMAIN d}
getitem(d, key) == d[CHOOSE i \in DOMAIN d : d[i].key = key].value

\* A query string, by its three parts: the key, the comparator and the
\* right-hand side.  A string with no comparator is no valid query.
QueryStrings == [lhs : {"name"}, cmpr : {">", "=", ""}, rhs : {"1", "x"}]
QueryLists == UNION {[1..n -> QueryStrings] : n \in 0..MaxQueries}

\* parse_query_string's tok_rhs, lines 346-350: a float if float() accepts
\* the text, else the text itself.
tok_rhs(content) ==
    IF content \in DOMAIN Floats THEN Num(Floats[content])
    ELSE Str(TextRank[content])

\* COMPARATOR_RE, as far as the query strings in use go.
Comparators == {">", "="}

\* parse_query_string: a ParseError, or the FilterFunction of the
\* comparison (FilterFunction.from_comparator, lines 115-124).
parse_query_string(query_string) ==
    IF query_string.cmpr \notin Comparators
    THEN [raised |-> "ParseError", query_key |-> None, comparator |-> None,
          cmpr_val |-> Str(0)]
    ELSE [raised |-> None, query_key |-> query_string.lhs,
          comparator |-> query_string.cmpr,
          cmpr_val |-> tok_rhs(query_string.rhs)]

Bool(b) == IF b THEN "True" ELSE "False"

\* _get_cmpr_fn(comparator, is_number)(value, cmpr_val), lines 241-256:
\* operator.gt raises TypeError between a string and a number; = is
\* operator.eq against a number and the wildcard match of str(value)
\* against a string.
cmpr_fn(comparator, value, cmpr_val) ==
    IF comparator = ">"
    THEN IF value.t # cmpr_val.t THEN "TypeError"
         ELSE Bool(value.v > cmpr_val.v)
    ELSE IF cmpr_val.t = "num"
         THEN Bool(value = cmpr_val)
         ELSE Bool(value.t = "str" /\ value.v = cmpr_val.v)

\* match_query_key(query_key, row.keys()): the row's key the query key
\* names, or a KeyError.
match_query_key(query_key, headings) ==
    IF query_key \in headings THEN query_key ELSE "KeyError"

\* FilterFunction.__call__ of a single comparison, lines 189-192 and
\* 118-124: the TypeError of the comparison is raised again as a TypeError.
call_filter(filter_fn, row) ==
    IF match_query_key(filter_fn.query_key, keys(row)) = "KeyError"
    THEN "KeyError"
    ELSE cmpr_fn(filter_fn.comparator,
                 getitem(row, filter_fn.query_key), filter_fn.cmpr_val)

RECURSIVE combined_filters(_, _, _)
\* FilterFunction.from_combined_filters(all, *all_filter_fns), lines
\* 142-143: all() stops at the first filter that is not true, and an
\* exception of a filter leaves it.
combined_filters(all_filter_fns, row, i) ==
    IF i > Len(all_filter_fns) THEN "True"
    ELSE LET r == call_filter(all_filter_fns[i], row)
         IN IF r = "True" THEN combined_filters(all_filter_fns, row, i + 1)
            ELSE r

\* _dont_care_call(excepts, fn, *args), lines 445-448, given what fn(*args)
\* returned or raised: None if one of excepts was raised.
dont_care_call(excepts, r) == IF r \in excepts THEN "None" ELSE r

\* parse_multiple_query_strings' filter_fn, line 424.
filter_fn(all_filter_fns, row) ==
    dont_care_call({"TypeError"}, combined_filters(all_filter_fns, row, 1))

\* What filter_list ends with: the exception raised (or None), the list
\* returned, whether the keys were compared and the query strings parsed,
\* the number of rows the filter was called on, and the rows on which the
\* comparison raised TypeError.
FilterOut(raised, result) ==
    [raised |-> raised, result |-> result, keys_checked |-> FALSE,
     parsed |-> FALSE, evaluated |-> 0, incomparable |-> {}]

RECURSIVE filter_rows(_, _, _, _)
\* list(filter(filter_fn, dicts)), line 487: the rows for which filter_fn
\* is true, in order; an exception of filter_fn leaves filter_list.
filter_rows(all_filter_fns, dicts, i, acc) ==
    IF i > Len(dicts) THEN acc
    ELSE LET raw == combined_filters(all_filter_fns, dicts[i], 1)
             r == filter_fn(all_filter_fns, dicts[i])
             seen == [acc EXCEPT !.evaluated = i,
                                 !.incomparable =
                                     IF raw = "TypeError" THEN @ \cup {i}
                                     ELSE @]
         IN IF r \in {"KeyError", "TypeError"}
            THEN [seen EXCEPT !.raised = r, !.result = <<>>]
            ELSE filter_rows(all_filter_fns, dicts, i + 1,
                             [seen EXCEPT !.result =
                                 IF r = "True" THEN Append(@, dicts[i])
                                 ELSE @])

\* A faulty variant: dicts with as many keys pass for dicts with the same
\* keys.
same_keys_SameLength(d, first) == Len(d) = Len(first)

\* filter_list, lines 481-484: d.keys() is equal to the first dict's keys.
same_keys(d, first) == keys(d) = keys(first)

\* filter_list(dicts, query_strings), lines 474-487.
filter_list(dicts, query_strings) ==
    IF dicts = <<>>
    THEN FilterOut(None, <<>>)
    ELSE IF query_strings = <<>>
    THEN FilterOut(None, dicts)
    ELSE IF \E i \in 2..Len(dicts) : ~same_keys(dicts[i], dicts[1])
    THEN [FilterOut("ValueError", <<>>) EXCEPT !.keys_checked = TRUE]
    ELSE LET all_filter_fns ==
                 [i \in 1..Len(query_strings) |->
                     parse_query_string(query_strings[i])]
         IN IF \E i \in 1..Len(query_strings) :
                   all_filter_fns[i].raised # None
            THEN [FilterOut("ParseError", <<>>) EXCEPT !.keys_checked = TRUE,
                                                       !.parsed = TRUE]
            ELSE filter_rows(all_filter_fns, dicts, 1,
                             [FilterOut(None, <<>>) EXCEPT
                                 !.keys_checked = TRUE, !.parsed = TRUE])

\* The keys of a dict in its order.
key_list(d) == [i \in DOMAIN d |-> d[i].key]

\* A faulty variant: a protected key is removed like any other.
discard_key_IgnoringProtect(dicts, key, constant_value, protect) ==
    \A i \in DOMAIN dicts : getitem(dicts[i], key) = constant_value

\* remove_constant_values, lines 521-531: the key is not kept.
discard_key(dicts, key, constant_value, protect) ==
    /\ \A i \in DOMAIN dicts : getitem(dicts[i], key) = constant_value
    /\ key \notin protect

\* remove_constant_values(dicts, constant_value, protect), lines 508-534:
\* every dict is built again from the keys to keep, which are in the order
\* of the first dict's keys.
remove_constant_values(dicts, constant_value, protect) ==
    IF dicts = <<>> THEN <<>>
    ELSE LET keys_to_keep ==
                 SelectSeq(key_list(dicts[1]),
                           LAMBDA key : ~discard_key(dicts, key,
                                                     constant_value, protect))
         IN [i \in DOMAIN dicts |->
               [j \in DOMAIN keys_to_keep |->
                   [key |-> keys_to_keep[j],
                    value |-> getitem(dicts[i], keys_to_keep[j])]]]

\* The lists of dicts remove_constant_values is documented for: all dicts
\* have the same keys.
SameKeysDictLists ==
    {dicts \in DictLists :
        \A i \in DOMAIN dicts : keys(dicts[i]) = keys(dicts[1])}

----------------------------------------------------------------------------
\* sat.auth: do_auth.

\* How SATSession.fetch_token can end: with a token, or with none.
FetchOutcomes == {"token", "no_token"}

\* session.token after session.fetch_token(password).
session_token(fetched) == IF fetched = "token" THEN "token" ELSE None

\* A faulty variant: the session is saved whatever its token is.
do_auth_AlwaysSaves(fetched) ==
    [saved |-> TRUE, raised |-> None, exit_code |-> 0]

\* do_auth(args), lines 35-45: the session is saved if it has a token;
\* SystemExit(1) is raised if not.
do_auth(fetched) ==
    IF session_token(fetched) # None
    THEN [saved |-> TRUE, raised |-> None, exit_code |-> 0]
    ELSE [saved |-> FALSE, raised |-> "SystemExit", exit_code |-> 1]

----------------------------------------------------------------------------
\* Calls of the functions of sat.filtering and sat.auth, each with any of
\* the inputs above.

InitCalls ==
    /\ action = None
    /\ inventory = [managers |-> {}, workers |-> {}]
    /\ pc = "calls"
    /\ exit_code = NoExit
    /\ ncn_groups = None
    /\ prompts = 0
    /\ answer = None
    /\ stepIdx = 0
    /\ executed = <<>>
    /\ failedStep = 0
    /\ loopIdx = 0
    /\ batch = NoBatch
    /\ errors = <<>>
    /\ service_action_waiters = [h \in Hosts |-> NoWaiter]
    /\ live = [s \in Services |-> [h \in Hosts |-> Unobserved]]
    /\ container_stop_threads = [h \in Hosts |-> NoThread]
    /\ ceph = NoCeph
    /\ \/ \E dicts \in DictLists, query_strings \in QueryLists :
             call = [NoCall EXCEPT !.fn = "filter_list", !.dicts = dicts,
                                   !.query_strings = query_strings,
                                   !.pc = "called"]
       \/ \E dicts \in SameKeysDictLists, constant_value \in FieldValues,
             protect \in {{}, {"name"}} :
             call = [NoCall EXCEPT !.fn = "remove_constant_values",
                                   !.dicts = dicts,
                                   !.constant_value = constant_value,
                                   !.protect = protect, !.pc = "called"]
       \/ \E fetched \in FetchOutcomes :
             call = [NoCall EXCEPT !.fn = "do_auth", !.fetched = fetched,
                                   !.pc = "called"]

platformVars ==
    <<action, inventory, pc, exit_code, ncn_groups, prompts, answer, stepIdx,
      executed, failedStep, loopIdx, batch, errors, service_action_waiters,
      live, container_stop_threads, ceph>>

CallFilterList ==
    /\ call.fn = "filter_list"
    /\ call.pc = "called"
    /\ call' = [call EXCEPT !.pc = "done",
                            !.out = filter_list(call.dicts, call.query_strings)]
    /\ UNCHANGED platformVars

CallRemoveConstantValues ==
    /\ call.fn = "remove_constant_values"
    /\ call.pc = "called"
    /\ call' = [call EXCEPT
                   !.pc = "done",
                   !.out = remove_constant_values(call.dicts,
                                                  call.constant_value,
                                                  call.protect)]
    /\ UNCHANGED platformVars

CallDoAuth ==
    /\ call.fn = "do_auth"
    /\ call.pc = "called"
    /\ call' = [call EXCEPT !.pc = "done", !.out = do_auth(call.fetched)]
    /\ UNCHANGED platformVars

NextCalls ==
    \/ CallFilterList
    \/ CallRemoveConstantValues
    \/ CallDoAuth

SpecCalls == InitCalls /\ [][NextCalls]_vars

----------------------------------------------------------------------------
\* Properties.

WaiterOf(h) == service_action_waiters[h]
BatchHosts == Range(batch.hosts)
InBatch == pc \in {"fanout", "fanin", "aggregate"}
ThreadRunning(w) == w.pc \in {"running", "polling"}
PreWaitDone(w) == w.pc \in {"polling", "done"}
BatchErrors == {i \in DOMAIN errors : errors[i].msg = "Failed to ensure"}

\* C1: a batch raises FatalPlatformError if and only if at least one of its
\* waiters ended not completed, it raises it exactly once however many
\* failed, and it returns normally when none failed.
C1_BatchRaisesOnceIffAnyFailed ==
    /\ Cardinality(BatchErrors) = batch.raised
    /\ batch.result # None =>
          /\ batch.result = "raised" <=> batch.failing > 0
          /\ batch.raised = IF batch.failing > 0 THEN 1 ELSE 0

\* A batch in which both hosts failed has raised.
C1_Witness == batch.result = "raised" /\ batch.failing > 1

\* C2: a batch in which a host's reconciliation raised a connectivity or
\* remote-command error has that host not completed, and raises.
C2_AnyHostErrorFailsBatch ==
    /\ pc = "aggregate" =>
          \A h \in BatchHosts : WaiterOf(h).exc # None => ~WaiterOf(h).completed
    /\ (batch.result # None /\ batch.errored > 0) => batch.result = "raised"

\* The step names in the order the platform actions are to run them.
StopOrder == <<"do_kubelet_stop", "do_containerd_stop", "do_ceph_freeze">>
StartOrder == <<"do_containerd_start", "do_kubelet_start">>

\* What each service step is to ask of the hosts.
ExpectedArgs(step) ==
    CASE step = "do_kubelet_stop" -> <<"kubelet", "inactive", "disabled">>
      [] step = "do_containerd_stop" -> <<"containerd", "inactive", None>>
      [] step = "do_containerd_start" -> <<"containerd", "active", "enabled">>
      [] step = "do_kubelet_start" -> <<"kubelet", "active", "enabled">>

\* C3: the steps that have executed are a prefix of the fixed order of the
\* action (stop: kubelet stop and disable, container drain and containerd
\* stop, Ceph freeze; start: containerd start and enable, kubelet start and
\* enable), so each has executed at most once.
C3_StepsArePrefixOfFixedOrder ==
    /\ action = "stop" => IsPrefix(executed, StopOrder)
    /\ action = "start" => IsPrefix(executed, StartOrder)
    /\ action \notin {"stop", "start"} => executed = <<>>
    /\ pc \in {"drain_start", "drain_join"} =>
          executed[Len(executed)] = "do_containerd_stop"
    /\ InBatch =>
          <<batch.service, batch.target_state, batch.target_enabled>>
             = ExpectedArgs(executed[Len(executed)])

\* All three stop steps have executed.
C3_Witness == action = "stop" /\ executed = StopOrder /\ pc = "returned"

\* C4: once a step has raised a fatal error, the run has ended with
\* SystemExit(1), no later step has executed, and nothing more happens to
\* any host: no command, no thread, no freeze.
C4_FatalStepEndsRun ==
    /\ [](failedStep > 0 =>
             /\ pc = "exit"
             /\ exit_code = 1
             /\ Len(executed) = failedStep)
    /\ [][failedStep > 0 =>
             UNCHANGED <<executed, service_action_waiters, live,
                         container_stop_threads, ceph>>]_vars

\* The first of the three stop steps failed.
C4_Witness ==
    action = "stop" /\ failedStep = 1 /\ pc = "exit" /\ Len(executed) = 1

\* C5: while the thread of any waiter of the batch is still running, the
\* main thread is in the fan-out or the fan-in loop: it has neither raised
\* nor returned.
C5_NoResultWhileAnyRuns ==
    \A h \in Hosts :
        ThreadRunning(WaiterOf(h)) =>
            /\ pc \in {"fanout", "fanin"}
            /\ batch.result = None
            /\ errors = <<>>

\* One host has failed and the main thread still waits for another.
C5_Witness ==
    /\ pc = "fanin"
    /\ \E g, h \in BatchHosts :
          /\ WaiterOf(g).outcome \in {"error", "timeout"}
          /\ ThreadRunning(WaiterOf(h))

\* C6: when the main thread awaits a waiter, every waiter of the batch has
\* been started; before that, the started threads already run.
C6_AllStartedBeforeAnyAwait ==
    pc \in {"fanin", "aggregate"} =>
        \A h \in BatchHosts : WaiterOf(h).pc # "built"

\* The second host's thread has ended before the first one's has begun
\* pre_wait_action.
C6_Witness ==
    /\ pc = "fanin"
    /\ Len(batch.hosts) > 1
    /\ WaiterOf(batch.hosts[1]).pc = "running"
    /\ WaiterOf(batch.hosts[2]).pc = "done"

\* C7: an error raised in a host's reconciliation is caught in its
\* wait_for_completion, which returns False; and a running sibling can take
\* its next step whatever has happened to the other hosts.
C7_ErrorsStayInTheirHost ==
    \A h \in Hosts :
        /\ WaiterOf(h).outcome # "uncaught"
        /\ WaiterOf(h).exc # None =>
              WaiterOf(h).pc = "done" /\ WaiterOf(h).ret = FALSE
        /\ WaiterOf(h).pc = "running" => ENABLED PreWait(h)
        /\ WaiterOf(h).pc = "polling" => ENABLED Poll(h)

\* One host's command failed and its sibling has completed after polling.
C7_Witness ==
    \E g, h \in BatchHosts :
        /\ WaiterOf(g).exc = "RuntimeError"
        /\ WaiterOf(h).outcome = "completed"
        /\ WaiterOf(h).elapsed > 0

----------------------------------------------------------------------------
\* Properties of one waiter, run on its own on host 1.

W1 == service_action_waiters[1]
L1 == live["kubelet"][1]

Opposite(token) ==
    CASE token = "active" -> "inactive"
      [] token = "inactive" -> "active"
      [] token = "enabled" -> "disabled"
      [] token = "disabled" -> "enabled"
      [] OTHER -> None

\* The is-enabled token of the service when the waiter began.
EnabledAtStart == IF W1.found.en # "?" THEN W1.found.en ELSE L1.en

\* pre_wait_action has ended, connecting and the status queries worked, and
\* the service was in the state and the enabled state opposite to the targets.
C8_Case ==
    /\ PreWaitDone(W1)
    /\ W1.failed_call \notin {"connect", "is_active", "is_enabled"}
    /\ batch.target_enabled # None
    /\ W1.found.act = Opposite(batch.target_state)
    /\ EnabledAtStart = Opposite(batch.target_enabled)

\* C8 as stated: in that case exactly one stop (start) command and exactly
\* one disable (enable) command are issued, whether or not the other exits
\* zero.
C8_BothCommandsWhateverTheExit ==
    C8_Case =>
        /\ StateCommands(W1) = <<systemctl_state_action(batch.target_state)>>
        /\ EnableCommands(W1) = <<systemctl_enable_action(batch.target_enabled)>>

\* C8: in that case exactly one stop (start) command is issued; exactly one
\* disable (enable) command is issued after it if it exited zero, and none
\* if it exited non-zero.
C8_EnableCommandOnlyAfterStateCommandSucceeds ==
    C8_Case =>
        /\ StateCommands(W1) = <<systemctl_state_action(batch.target_state)>>
        /\ EnableCommands(W1) =
              IF W1.failed_call = "state_nonzero" THEN <<>>
              ELSE <<systemctl_enable_action(batch.target_enabled)>>

\* The stop command exited non-zero and no disable command followed.
C8_Witness ==
    /\ C8_Case
    /\ batch.target_state = "inactive"
    /\ W1.failed_call = "state_nonzero"
    /\ Controls(W1) = <<"stop">>

\* pre_wait_action has ended and found the service in the target state.
C9_Case == PreWaitDone(W1) /\ W1.found.act = batch.target_state

\* C9 as stated: a waiter that finds the service in the target state is
\* completed and issues no control command at all.
C9_NoControlCommandWhenInTargetState ==
    C9_Case => W1.completed /\ Controls(W1) = <<>>

\* C9: a waiter that finds the service in the target state is completed and
\* issues no start or stop command; it issues the enable or disable command
\* exactly when target_enabled is set and is not what is-enabled answers.
C9_NoStateCommandWhenInTargetState ==
    C9_Case =>
        /\ W1.completed
        /\ StateCommands(W1) = <<>>
        /\ EnableCommands(W1) =
              IF /\ batch.target_enabled # None
                 /\ W1.failed_call # "is_enabled"
                 /\ EnabledAtStart # batch.target_enabled
              THEN <<systemctl_enable_action(batch.target_enabled)>>
              ELSE <<>>

\* The service was inactive as wanted, but enabled: disable was issued.
C9_Witness ==
    /\ C9_Case
    /\ batch.target_state = "inactive"
    /\ W1.completed
    /\ Controls(W1) = <<"disable">>

----------------------------------------------------------------------------
\* The state the hosts are to be in after a step, by the step's arguments.
\* An enabled state that no query has read is not held against the step.
Converged(step) ==
    LET args == ServiceArgs(step)
    IN \A h \in Range(ncn_groups.kubernetes) :
          /\ live[args.service][h].act = args.target_state
          /\ args.target_enabled # None =>
                live[args.service][h].en \in {args.target_enabled, "?"}

\* C10: when do_platform_action returns normally, every step has run, every
\* Kubernetes host is in the target state of every service step (and in its
\* target enabled state, where it has one), and a stop has frozen Ceph.
C10_ReturnMeansConverged ==
    pc = "returned" =>
        /\ executed = steps
        /\ \A i \in 1..Len(steps) :
              steps[i] # "do_ceph_freeze" => Converged(steps[i])
        /\ action = "stop" => ceph.freezes = 1

----------------------------------------------------------------------------
\* Properties of the node groups, the storage cluster and the container
\* drain.

\* One of the three node groups resolved to an empty list.
SomeGroupEmpty ==
    \E name \in {"managers", "workers", "kubernetes"} :
        ncns_by_group[name] = <<>>

\* No step was entered, and nothing was constructed, connected to or called
\* for any host or for the storage cluster.
NothingDone ==
    /\ executed = <<>>
    /\ ncn_groups = None
    /\ batch = NoBatch
    /\ \A h \in Hosts :
          /\ service_action_waiters[h] = NoWaiter
          /\ container_stop_threads[h] = NoThread
          /\ \A s \in Services : live[s][h] = Unobserved
    /\ ceph = NoCeph

\* C11: if any of the groups managers, workers and kubernetes resolves to an
\* empty list, the run ends with exit code 1 once the groups are resolved,
\* without the confirmation prompt ever being issued and without any step
\* being executed or any host being contacted.
C11_EmptyGroupFailsBeforePrompt ==
    (SomeGroupEmpty /\ pc \notin {"lookup", "resolve"}) =>
        /\ pc = "exit"
        /\ exit_code = 1
        /\ prompts = 0
        /\ answer = None
        /\ NothingDone

\* A valid action ended because the workers group, and only it, was empty.
C11_Witness ==
    /\ action \in DOMAIN STEPS_BY_ACTION
    /\ ncns_by_group.workers = <<>>
    /\ ncns_by_group.managers # <<>>
    /\ pc = "exit"
    /\ exit_code = 1
    /\ Len(errors) = 1
    /\ errors[1].msg = "Failed to identify members"

\* C12: if the admin answers no to the confirmation of the node groups, the
\* run ends with exit code 1 before any step is executed: no step action is
\* called and no host is connected to or sent a command.
C12_DeclineFailsBeforeAnyStep ==
    answer = "no" =>
        /\ pc = "exit"
        /\ exit_code = 1
        /\ prompts = 1
        /\ NothingDone

\* The groups were all non-empty, the admin answered no, and the run ended.
C12_Witness ==
    /\ ~SomeGroupEmpty
    /\ answer = "no"
    /\ pc = "exit"
    /\ errors[Len(errors)].msg = "User indicated NCN groups are incorrect"

\* C13: do_ceph_freeze never calls freeze_ceph when ceph_healthy answers
\* that the cluster is unhealthy: it raises the fatal error after that one
\* health query.  It calls freeze_ceph exactly once when the cluster is
\* healthy, and never before the health query.
C13_FreezeOnlyWhenHealthy ==
    /\ ceph.healthy = None => ceph = NoCeph
    /\ ceph.healthy = "False" =>
          /\ ceph.freezes = 0
          /\ ceph.health_checks = 1
          /\ ceph.raised = "FatalPlatformError"
          /\ pc = "exit"
          /\ exit_code = 1
    /\ ceph.healthy = "True" =>
          /\ ceph.freezes = 1
          /\ ceph.health_checks = 1

\* The stop action reached its third step with the cluster unhealthy.
C13_Witness ==
    /\ executed = STEPS_BY_ACTION["stop"]
    /\ ceph.healthy = "False"
    /\ ceph.freezes = 0
    /\ pc = "exit"

\* C14: a failure of the freeze call leaves do_ceph_freeze as a
\* FatalPlatformError, the error kind a failed batch raises, and
\* do_platform_action handles it as it does any failed step: the error is
\* recorded for the step and the run ends with exit code 1.
C14_FreezeFailureIsFatalPlatformError ==
    ceph.outcome \notin {None, "ok"} =>
        /\ ceph.raised = "FatalPlatformError"
        /\ pc = "exit"
        /\ exit_code = 1
        /\ failedStep = Len(executed)
        /\ steps[failedStep] = "do_ceph_freeze"
        /\ errors[Len(errors)].msg = "freeze_ceph failed"

\* The cluster was healthy and freeze_ceph failed.
C14_Witness ==
    /\ ceph.healthy = "True"
    /\ ceph.freezes = 1
    /\ ceph.outcome = "RuntimeError"
    /\ pc = "exit"

\* The stop_containers thread of host h.
DrainThread(h) == container_stop_threads[h]

\* The main thread is in do_containerd_stop's own lines, before the batch.
InDrain == pc \in {"drain_start", "drain_join"}

\* The containerd stop batch of do_containerd_stop has been constructed on
\* all Kubernetes NCNs.
ContainerdStopBatchBuilt ==
    /\ batch.service = "containerd"
    /\ batch.target_state = "inactive"
    /\ batch.hosts = ncn_groups.kubernetes
    /\ \A g \in Range(ncn_groups.kubernetes) : WaiterOf(g).pc # "none"

\* The drain did not fail its caller: the main thread is still draining, or
\* it went on to the containerd stop batch on all Kubernetes NCNs, and once
\* the fan-out is over every one of them has had its waiter started.
DrainLeftCallerAlone ==
    \/ InDrain
    \/ /\ ContainerdStopBatchBuilt
       /\ pc # "fanout" =>
             \A g \in Range(ncn_groups.kubernetes) :
                 WaiterOf(g).pc \in {"running", "polling", "done"}

C16_ConnectFailureLoggedAsWarning ==
    \A h \in Hosts :
        DrainThread(h).fault = "connect" =>
            /\ DrainThread(h).log = "warning"
            /\ DrainLeftCallerAlone

\* C16: a connection failure while draining a host is logged as an error
\* and ends that host's worker with SystemExit, which never fails the
\* caller: the other hosts' workers run to their own end and the containerd
\* stop batch still runs on all Kubernetes NCNs.
C16_ConnectFailureLoggedAsErrorStaysInWorker ==
    \A h \in Hosts :
        DrainThread(h).fault = "connect" =>
            /\ DrainThread(h).log = "error"
            /\ DrainThread(h).raised = "SystemExit"
            /\ DrainLeftCallerAlone
            /\ \A g \in Hosts \ {h} :
                  DrainThread(g).st = "running" => ENABLED StopContainers(g)

\* Connecting failed on host 1 while host 2 drained without fault, and the
\* containerd stop batch that followed completed on both hosts.
C16_Witness ==
    /\ DrainThread(1).fault = "connect"
    /\ DrainThread(2).fault = "none"
    /\ DrainThread(2).st = "done"
    /\ batch.service = "containerd"
    /\ \A g \in Hosts : WaiterOf(g).pc = "done" /\ WaiterOf(g).completed

\* C17: in do_containerd_stop every stop_containers thread has ended before
\* the first containerd stop waiter is constructed or started on any host:
\* no waiter exists while a drain thread is yet to start or still running,
\* and once the batch is built the thread of every Kubernetes NCN has ended.
C17_DrainJoinedBeforeContainerdStop ==
    /\ \A h, g \in Hosts :
          WaiterOf(h).pc # "none" => DrainThread(g).st \notin {"built", "running"}
    /\ (action = "stop" /\ batch.service = "containerd" /\ batch.result = None) =>
          \A g \in Range(ncn_groups.kubernetes) : DrainThread(g).st = "done"

\* Both drain threads have ended and the first containerd stop waiter is
\* about to be started.
C17_Witness ==
    /\ pc = "fanout"
    /\ loopIdx = 1
    /\ batch.service = "containerd"
    /\ batch.target_state = "inactive"
    /\ \A g \in Hosts : DrainThread(g).st = "done" /\ WaiterOf(g).pc = "built"

----------------------------------------------------------------------------
\* Properties of the threads of a step and of a waiter's timeout.

\* No waiter thread and no stop_containers thread is yet to end.
NoThreadAlive ==
    \A h \in Hosts :
        /\ WaiterOf(h).pc \in {"none", "done"}
        /\ DrainThread(h).st \in {"none", "done"}

\* C18: steps never run concurrently.  A step ends, and the next one
\* begins, only when every waiter thread and every stop_containers thread
\* the step started has ended; between steps and after the run no thread is
\* alive, so no remote command of a step is issued once the next has begun.
C18_StepsNeverOverlap ==
    /\ [](pc \in {"step", "exit", "returned"} => NoThreadAlive)
    /\ [][(stepIdx' # stepIdx \/ executed' # executed) => NoThreadAlive]_vars

\* The second step of the stop action runs its drain threads after the
\* first step's waiters sent their commands and ended.
C18_Witness ==
    /\ action = "stop"
    /\ Len(executed) = 2
    /\ pc = "drain_join"
    /\ \E h \in Hosts : DrainThread(h).st = "running"
    /\ \A s \in {"kubelet"}, h \in Range(ncn_groups.kubernetes) :
          live[s][h].act = "inactive"

\* C19: a waiter that exceeds its timeout ends not completed, for its own
\* host only: it timed out after its own timeout and no sooner, its
\* siblings in the batch keep running their own pre_wait_action and polls,
\* and the batch as a whole raises.
C19_TimeoutStaysInItsHost ==
    /\ [](\A h \in BatchHosts :
             WaiterOf(h).outcome = "timeout" =>
                 /\ ~WaiterOf(h).completed
                 /\ WaiterOf(h).ret = FALSE
                 /\ WaiterOf(h).exc = None
                 /\ WaiterOf(h).elapsed = WaiterOf(h).timeout
                 /\ \A g \in BatchHosts \ {h} :
                       /\ WaiterOf(g).pc = "running" => ENABLED PreWait(g)
                       /\ WaiterOf(g).pc = "polling" => ENABLED Poll(g)
                 /\ pc \notin {"fanout", "fanin", "aggregate"} =>
                       pc = "exit" /\ batch.result = "raised")
    /\ [][(pc = "aggregate" /\ \E h \in BatchHosts :
                                   WaiterOf(h).outcome = "timeout")
             => (pc' = "exit" /\ batch'.result = "raised")]_vars

\* Host 1 timed out, host 2 converged at a later poll of its own, and the
\* batch raised.
C19_Witness ==
    /\ Cardinality(BatchHosts) = 2
    /\ WaiterOf(1).outcome = "timeout"
    /\ WaiterOf(2).outcome = "completed"
    /\ WaiterOf(2).completed
    /\ WaiterOf(2).elapsed = WaiterOf(2).timeout
    /\ batch.result = "raised"
    /\ batch.failing = 1

\* How often command c is in the commands a waiter issued.
Count(w, c) == Cardinality({i \in DOMAIN w.issued : w.issued[i] = c})

\* The waiter run on its own sent its state-changing command, polled, and
\* ended without any remote call failing.
C20_Case ==
    /\ pc = "standalone"
    /\ W1.pc = "done"
    /\ W1.exc = None
    /\ StateCommands(W1) # <<>>

----------------------------------------------------------------------------
\* Properties of the constructor, of the node groups a run uses, of the
\* connections and of the run's exit status.

\* The constructor's arguments are among the enumerated values.
ValidArguments ==
    /\ batch.target_state \in {"active", "inactive"}
    /\ batch.target_enabled \in {"enabled", "disabled", None}

\* C21: constructing a RemoteServiceWaiter succeeds for every target_state
\* in {active, inactive} with every target_enabled in {enabled, disabled,
\* None}, and raises ValueError for any other value of either, before any
\* connection is opened and before any command is issued; a waiter whose
\* construction failed never runs.
C21_ConstructionValidatesArguments ==
    (pc = "standalone" /\ W1.pc # "none") =>
        /\ ValidArguments <=> W1.pc # "ValueError"
        /\ W1.pc = "ValueError" =>
              /\ ~W1.connected
              /\ W1.issued = <<>>
              /\ ~ENABLED CallWaitForCompletion
              /\ ~ENABLED PreWait(1)

\* target_state is valid and target_enabled is not: construction failed.
C21_Witness ==
    /\ pc = "standalone"
    /\ batch.target_state = "active"
    /\ batch.target_enabled = "masked"
    /\ W1.pc = "ValueError"

\* C22: prompt_for_ncn_verification runs once per platform action, with at
\* most one confirmation prompt, and has returned before the first step
\* begins; every step works on the confirmed mapping, which no step
\* changes.
C22_GroupsResolvedOnceBeforeSteps ==
    /\ [](/\ prompts <= 1
          /\ (executed # <<>> \/ pc = "step") =>
                /\ prompts = 1
                /\ answer = "yes"
                /\ ncn_groups = ncns_by_group
          /\ (InBatch /\ pc # "standalone") => batch.hosts = ncn_groups.kubernetes
          /\ \A h \in Hosts :
                DrainThread(h).st # "none" => h \in Range(ncn_groups.kubernetes))
    /\ [][/\ pc' = "resolve" => pc \in {"lookup", "resolve"}
          /\ prompts' # prompts => (pc = "resolve" /\ executed = <<>>)
          /\ answer = "yes" => ncn_groups' = ncn_groups]_vars

\* The stop action is at its third step, after one prompt, with the groups
\* as they were confirmed.
C22_Witness ==
    /\ action = "stop"
    /\ Len(executed) = 3
    /\ prompts = 1
    /\ ncn_groups = ncns_by_group
    /\ Len(ncn_groups.kubernetes) = 2

\* A list of hosts in ascending order without repetition.
StrictlySorted(s) == \A i, j \in 1..Len(s) : i < j => s[i] < s[j]

\* C23: in the mapping prompt_for_ncn_verification returns, every group is
\* sorted and non-empty, the managers and the workers are the hosts the
\* inventory gives those roles, and the kubernetes group is the union of
\* the two, with no host missing, extra or repeated.
C23_KubernetesIsSortedUnion ==
    answer = "yes" =>
        /\ \A name \in {"managers", "workers", "kubernetes"} :
              /\ StrictlySorted(ncn_groups[name])
              /\ ncn_groups[name] # <<>>
        /\ Range(ncn_groups.managers) = inventory.managers
        /\ Range(ncn_groups.workers) = inventory.workers
        /\ Range(ncn_groups.kubernetes) =
              Range(ncn_groups.managers) \cup Range(ncn_groups.workers)
        /\ Len(ncn_groups.kubernetes) =
              Cardinality(inventory.managers \cup inventory.workers)

\* Host 1 is a manager and a worker: it is in the kubernetes group once.
C23_Witness ==
    /\ answer = "yes"
    /\ inventory.managers = {1}
    /\ inventory.workers = {1}
    /\ ncn_groups.kubernetes = <<1>>

\* C24: every waiter's remote connection is released by the end of its
\* reconciliation: once a waiter's thread has ended, and once the batch has
\* finished, normally or by raising, none of its waiters still holds an open
\* connection.
C24_ConnectionsReleasedAtEnd ==
    /\ \A h \in Hosts : WaiterOf(h).pc = "done" => ~WaiterOf(h).connected
    /\ pc \in {"aggregate", "step", "exit", "returned"} =>
          \A h \in Hosts : ~WaiterOf(h).connected

\* C25: do_platform_action called with an action that is neither start nor
\* stop ends with exit code 1 without resolving the node groups, without
\* prompting and without executing any step; and every run that fails,
\* whatever the reason, ends with that same exit code 1, while a run that
\* returns has none.
C25_InvalidActionExitsWithTheOneStatus ==
    /\ (action \notin {"start", "stop"} /\ pc \notin {"lookup", "standalone"}) =>
          /\ pc = "exit"
          /\ exit_code = 1
          /\ prompts = 0
          /\ answer = None
          /\ errors = <<>>
          /\ NothingDone
    /\ pc = "exit" => exit_code = 1
    /\ pc # "exit" => exit_code = NoExit

\* The action restart ended the run at the lookup.
C25_Witness ==
    /\ action = "restart"
    /\ pc = "exit"
    /\ exit_code = 1
    /\ prompts = 0

\* C26: the FatalPlatformError a failed batch raises is a function of the
\* service name, target_state and target_enabled alone: whichever hosts
\* failed, and however many, it is the same error, and it names no host.
C26_BatchErrorNamesNoHost ==
    batch.result = "raised" =>
        /\ errors # <<>>
        /\ errors[Len(errors)] =
              [msg |-> "Failed to ensure", service |-> batch.service,
               target_state |-> batch.target_state,
               target_enabled |-> batch.target_enabled]
        /\ \A i \in BatchErrors :
              DOMAIN errors[i] =
                 {"msg", "service", "target_state", "target_enabled"}

\* Of two hosts only host 2 failed, and the batch raised.
C26_Witness ==
    /\ batch.result = "raised"
    /\ Cardinality(BatchHosts) = 2
    /\ NotCompleted = {2}
    /\ Len(errors) = 1

----------------------------------------------------------------------------
\* Properties of sat.filtering and sat.auth.

\* A call of function fn has ended.
Done(fn) == call.fn = fn /\ call.pc = "done"

\* C27: filter_list raises TypeError when a row's value for the query key
\* cannot be compared with the query's comparison value, rather than
\* silently dropping or keeping the row.
C27_IncomparableValueRaisesTypeError ==
    (Done("filter_list") /\ call.out.incomparable # {}) =>
        call.out.raised = "TypeError"

\* The dicts of a call and, of a call of remove_constant_values, the keys
\* it has to remove and the dicts it returned.
InDicts == call.dicts
OutDicts == call.out
ToRemove ==
    {key \in keys(InDicts[1]) :
        /\ \A i \in DOMAIN InDicts :
              getitem(InDicts[i], key) = call.constant_value
        /\ key \notin call.protect}

\* What C28 says of the keys and the values: an empty list gives an empty
\* list; in every dict a key is removed if and only if its value is
\* constant_value in every dict and it is not protected, and every other
\* key keeps its value.
C28_KeysAndValues ==
    /\ Len(OutDicts) = Len(InDicts)
    /\ \A i \in DOMAIN InDicts :
          /\ keys(OutDicts[i]) = keys(InDicts[i]) \ ToRemove
          /\ Len(OutDicts[i]) = Cardinality(keys(OutDicts[i]))
          /\ \A key \in keys(OutDicts[i]) :
                getitem(OutDicts[i], key) = getitem(InDicts[i], key)

\* The keys of list order that are kept.
Kept(order) == SelectSeq(order, LAMBDA key : key \notin ToRemove)

\* C28 as stated: in every dict the keys that are kept are in the order
\* they had in that dict.
C28_KeptKeysKeepTheirOwnOrder ==
    Done("remove_constant_values") =>
        /\ C28_KeysAndValues
        /\ \A i \in DOMAIN InDicts :
              key_list(OutDicts[i]) = Kept(key_list(InDicts[i]))

\* C28: for a list of dicts that have the same keys, remove_constant_values
\* removes a key from every dict if and only if its value is constant_value
\* in every dict and it is not protected; the other keys keep their values,
\* and in every dict they are in the order of the first dict's keys.
C28_KeptKeysInFirstDictsOrder ==
    Done("remove_constant_values") =>
        /\ C28_KeysAndValues
        /\ \A i \in DOMAIN InDicts :
              key_list(OutDicts[i]) = Kept(key_list(InDicts[1]))

\* Two dicts with the same keys in different orders, of which the protected
\* key is constant: both keys are kept, in the first dict's order.
C28_Witness ==
    /\ Done("remove_constant_values")
    /\ Len(InDicts) = 2
    /\ key_list(InDicts[1]) = <<"count", "name">>
    /\ key_list(InDicts[2]) = <<"name", "count">>
    /\ call.protect = {"name"}
    /\ \A i \in DOMAIN InDicts : getitem(InDicts[i], "name") = call.constant_value
    /\ key_list(OutDicts[2]) = <<"count", "name">>

\* A dict of the list has other keys than the first.
InconsistentKeys ==
    \E i \in DOMAIN InDicts : keys(InDicts[i]) # keys(InDicts[1])

C30_SavesIffTokenFetched ==
    Done("do_auth") =>
        /\ call.out.saved <=> call.fetched = "token"
        /\ call.fetched = "token" => call.out.raised = None
        /\ call.fetched = "no_token" =>
              /\ ~call.out.saved
              /\ call.out.raised = "SystemExit"
              /\ call.out.exit_code = 1

\* No token was obtained and do_auth has ended.
C30_Witness ==
    /\ Done("do_auth")
    /\ call.fetched = "no_token"
    /\ ~call.out.saved
    /\ call.out.exit_code = 1

----------------------------------------------------------------------------
\* Properties of the commands a waiter issues.

\* The command that brings a service to a target: start for active and
\* stop for inactive, enable for enabled and disable for disabled.
StartOrStopFor(target_state) ==
    CASE target_state = "active" -> "start"
      [] target_state = "inactive" -> "stop"
EnableFor(target_enabled) ==
    CASE target_enabled = "enabled" -> "enable"
      [] target_enabled = "disabled" -> "disable"

\* pre_wait_action of the waiter run on its own has ended, and connecting
\* and the status queries it made worked.
C31_Case ==
    /\ pc = "standalone"
    /\ PreWaitDone(W1)
    /\ W1.failed_call \notin {"connect", "is_active", "is_enabled"}

\* target_enabled is set and is not the enabled status of the service.
EnabledDiffers ==
    batch.target_enabled # None /\ EnabledAtStart # batch.target_enabled

\* C31 as stated: when target_enabled is set and differs from the live
\* enabled status, the matching enable or disable command is issued exactly
\* once, whether or not a start or stop command was issued; otherwise no
\* enable or disable command is issued.
C31_EnableCommandWheneverStatusDiffers ==
    C31_Case =>
        EnableCommands(W1) =
            IF EnabledDiffers
            THEN <<EnableFor(batch.target_enabled)>>
            ELSE <<>>

\* C31: when target_enabled is set and differs from the live enabled
\* status, the matching enable or disable command is issued exactly once,
\* also when the service is already in the target state and no start or
\* stop command was issued, unless the start or stop command that was
\* issued exited non-zero: then, and when target_enabled is None or equals
\* the live status, no enable or disable command is issued.
C31_EnableCommandUnlessStateCommandFailed ==
    C31_Case =>
        EnableCommands(W1) =
            IF EnabledDiffers /\ W1.failed_call # "state_nonzero"
            THEN <<EnableFor(batch.target_enabled)>>
            ELSE <<>>

\* The service was active as wanted but disabled: no start command, and
\* the one enable command.
C31_Witness ==
    /\ C31_Case
    /\ batch.target_state = "active"
    /\ batch.target_enabled = "enabled"
    /\ W1.found = [act |-> "active", en |-> "disabled"]
    /\ StateCommands(W1) = <<>>
    /\ W1.issued = <<"is-active", "is-enabled", "enable">>


\* The remote commands of a waiter other than is-active queries.
NotIsActive(c) == c # "is-active"
OtherThanIsActive(w) == SelectSeq(w.issued, NotIsActive)

\* C32: while a waiter polls, it issues nothing but is-active queries: no
\* is-enabled query and no enable or disable command after pre_wait_action
\* has returned; and whether it ends completed depends on the active status
\* alone, not on the enabled status the service has at the end of the wait.
C32_PollingQueriesOnlyActive ==
    /\ [][(pc = "standalone" /\ W1.pc = "polling") =>
             /\ OtherThanIsActive(W1)' = OtherThanIsActive(W1)
             /\ Len(W1'.issued) <= Len(W1.issued) + 1]_vars
    /\ []((pc = "standalone" /\ W1.pc = "done" /\ W1.exc = None) =>
             /\ W1.completed <=> L1.act = batch.target_state
             /\ W1.ret = W1.completed)

\* The waiter enabled the service, which somebody disabled while the
\* waiter polled: it ends completed, after one is-enabled query.
C32_Witness ==
    /\ pc = "standalone"
    /\ W1.pc = "done"
    /\ W1.completed
    /\ W1.elapsed >= 1
    /\ batch.target_enabled = "enabled"
    /\ L1.en = "disabled"
    /\ Count(W1, "is-enabled") = 1
    /\ Count(W1, "enable") = 1
    /\ Count(W1, "is-active") = W1.elapsed + 2


----------------------------------------------------------------------------
\* Properties of the order of the services.

\* The hosts of the kubernetes group.
KubernetesHosts == Range(ncn_groups.kubernetes)

\* A command of a batch for service s has been issued on host h.
IssuedFor(s, h) == batch.service = s /\ WaiterOf(h).issued # <<>>

\* The stop of containerd has reached host h: its drain thread was started,
\* or a command for containerd was issued there.
ContainerdStopReached(h) ==
    \/ DrainThread(h).st \in {"running", "done"}
    \/ IssuedFor("containerd", h)
    \/ live["containerd"][h] # Unobserved

\* C33: in a stop run, no container drain and no command for containerd is
\* issued on any host before the kubelet batch has succeeded: kubelet has
\* been seen inactive on every Kubernetes host, not only on that host.
C33_RuntimeStopsAfterAgentStoppedFleetWide ==
    (action = "stop" /\ \E h \in Hosts : ContainerdStopReached(h)) =>
        /\ IsPrefix(<<"do_kubelet_stop", "do_containerd_stop">>, executed)
        /\ failedStep # 1
        /\ \A h \in KubernetesHosts : live["kubelet"][h].act = "inactive"

\* containerd is being stopped on one of two Kubernetes hosts, on both of
\* which kubelet is inactive.
C33_Witness ==
    /\ action = "stop"
    /\ batch.service = "containerd"
    /\ Cardinality(KubernetesHosts) = 2
    /\ \E h \in KubernetesHosts :
          /\ "stop" \in Range(WaiterOf(h).issued)
          /\ DrainThread(h).st = "done"
    /\ \E h \in KubernetesHosts : WaiterOf(h).issued = <<>>
    /\ \A h \in KubernetesHosts : live["kubelet"][h].act = "inactive"


\* The start of kubelet has reached host h: a command for kubelet was
\* issued there.
KubeletStartReached(h) ==
    IssuedFor("kubelet", h) \/ live["kubelet"][h] # Unobserved

\* C34: in a start run, no command for kubelet is issued on any host before
\* the containerd batch has succeeded: containerd has been seen active on
\* every Kubernetes host; and if containerd does not become active on even
\* one host, the run ends and kubelet is started on no host.
C34_AgentStartsAfterRuntimeActiveFleetWide ==
    /\ (action = "start" /\ \E h \in Hosts : KubeletStartReached(h)) =>
          /\ IsPrefix(<<"do_containerd_start", "do_kubelet_start">>, executed)
          /\ failedStep # 1
          /\ \A h \in KubernetesHosts : live["containerd"][h].act = "active"
    /\ (action = "start" /\ failedStep = 1) =>
          /\ pc = "exit"
          /\ executed = <<"do_containerd_start">>
          /\ \A h \in Hosts : ~KubeletStartReached(h)

\* containerd became active on one of the two Kubernetes hosts and timed
\* out on the other: the run has ended and kubelet was started on neither.
C34_Witness ==
    /\ action = "start"
    /\ failedStep = 1
    /\ batch.service = "containerd"
    /\ Cardinality(KubernetesHosts) = 2
    /\ \E h \in KubernetesHosts :
          WaiterOf(h).completed /\ live["containerd"][h].act = "active"
    /\ \E h \in KubernetesHosts :
          WaiterOf(h).outcome = "timeout" /\ Count(WaiterOf(h), "start") = 1
    /\ \A h \in Hosts : live["kubelet"][h] = Unobserved


----------------------------------------------------------------------------
\* C35: every invocation of do_platform_action eventually ends, with a
\* normal return or with the failure exit, when every remote call and the
\* prompt return and every waiter's timeout is finite: no host that fails,
\* errors or never converges blocks the join of a batch forever.
C35_EveryInvocationTerminates == <>(pc \in {"returned", "exit"})

\* A batch of two hosts, of which one raised an error and the other timed
\* out, has been joined and the run has ended.
C35_Witness ==
    /\ pc = "exit"
    /\ batch.failing = 2
    /\ \E h \in BatchHosts : WaiterOf(h).outcome = "error"
    /\ \E h \in BatchHosts :
          WaiterOf(h).outcome = "timeout" /\ WaiterOf(h).elapsed = TimeoutPolls


----------------------------------------------------------------------------
\* C36: over the lifetime of one waiter at most one start or stop command
\* is issued to its host: only in pre_wait_action, right after the first
\* is-active query answered another token than target_state, and never
\* again while the waiter polls, however many polls see another token.
C36_AtMostOneStateCommand ==
    /\ [](pc = "standalone" =>
            /\ Len(StateCommands(W1)) <= 1
            /\ StateCommands(W1) # <<>> =>
                  /\ W1.found.act \in ActiveTokens \ {batch.target_state}
                  /\ W1.issued[1] = "is-active"
                  /\ IsStateCommand(W1.issued[2]))
    /\ [][(pc = "standalone" /\ W1.pc = "polling") =>
             StateCommands(W1)' = StateCommands(W1)]_vars

\* The service never became inactive: after the one stop command every
\* poll up to the timeout saw it active.
C36_Witness ==
    /\ pc = "standalone"
    /\ batch.target_state = "inactive"
    /\ W1.outcome = "timeout"
    /\ W1.elapsed = StandaloneTimeoutPolls
    /\ L1.act = "active"
    /\ Count(W1, "is-active") = StandaloneTimeoutPolls + 2
    /\ Count(W1, "stop") = 1
    /\ Count(W1, "start") = 0


----------------------------------------------------------------------------
\* C37: the control command matches the target: a waiter with target_state
\* active only ever issues start and one with inactive only ever stop; with
\* target_enabled enabled only ever enable and with disabled only ever
\* disable.  Any status token other than the target, "unknown" included,
\* counts as not in the target and brings the command about.
C37_CommandMatchesTarget ==
    pc = "standalone" =>
        /\ StateCommands(W1) # <<>> =>
              \A i \in DOMAIN StateCommands(W1) :
                 StateCommands(W1)[i] = StartOrStopFor(batch.target_state)
        /\ EnableCommands(W1) # <<>> =>
              /\ batch.target_enabled # None
              /\ \A i \in DOMAIN EnableCommands(W1) :
                    EnableCommands(W1)[i] = EnableFor(batch.target_enabled)
        /\ (PreWaitDone(W1)
              /\ W1.found.act \in ActiveTokens \ {batch.target_state}) =>
              StateCommands(W1) = <<StartOrStopFor(batch.target_state)>>
        /\ (PreWaitDone(W1)
              /\ W1.found.en \in EnabledTokens \ {batch.target_enabled}) =>
              EnableCommands(W1) = <<EnableFor(batch.target_enabled)>>

\* Both status queries answered "unknown": start and enable were issued.
C37_Witness ==
    /\ pc = "standalone"
    /\ PreWaitDone(W1)
    /\ batch.target_state = "active"
    /\ batch.target_enabled = "enabled"
    /\ W1.found = [act |-> "unknown", en |-> "unknown"]
    /\ W1.issued = <<"is-active", "start", "is-enabled", "enable">>


----------------------------------------------------------------------------
\* Every command the waiters of the batch have issued is one of cmds.
BatchIssuesOnly(cmds) ==
    \A h \in Hosts : Range(WaiterOf(h).issued) \subseteq cmds

\* C38: in a stop run only kubelet is disabled: the batch that stops
\* containerd has no target_enabled, and no enable or disable command and
\* no is-enabled query is ever issued for containerd; in a start run both
\* containerd and kubelet are driven to active and enabled.
C38_OnlyKubeletIsDisabledOnStop ==
    /\ action = "stop" =>
          /\ \A h \in Hosts : live["containerd"][h].en = "?"
          /\ batch.service = "containerd" =>
                /\ batch.target_state = "inactive"
                /\ batch.target_enabled = None
                /\ BatchIssuesOnly({"is-active", "stop"})
          /\ batch.service = "kubelet" =>
                /\ batch.target_state = "inactive"
                /\ batch.target_enabled = "disabled"
                /\ BatchIssuesOnly({"is-active", "stop", "is-enabled",
                                    "disable"})
    /\ action = "start" =>
          /\ batch.service \in Services =>
                /\ batch.target_state = "active"
                /\ batch.target_enabled = "enabled"
                /\ BatchIssuesOnly({"is-active", "start", "is-enabled",
                                    "enable"})
          /\ pc = "returned" =>
                executed = <<"do_containerd_start", "do_kubelet_start">>

\* In a stop run kubelet was disabled on a host on which containerd has
\* now been stopped, with no query of whether containerd is enabled.
C38_Witness ==
    /\ action = "stop"
    /\ batch.service = "containerd"
    /\ \E h \in KubernetesHosts :
          /\ live["kubelet"][h] = [act |-> "inactive", en |-> "disabled"]
          /\ live["containerd"][h] = [act |-> "inactive", en |-> "?"]
          /\ WaiterOf(h).issued = <<"is-active", "stop", "is-active">>
          /\ WaiterOf(h).completed

====
